---------------------------- MODULE Spec2Model ----------------------------
(***************************************************************************)
(* Model of src/src/graph/bellman_ford.rs: the Graph type (a BTreeMap of   *)
(* BTreeMaps), add_edge, and bellman_ford run step by step: one step per   *)
(* loop head and one per edge examined, in the BTreeMap's key order.       *)
(*                                                                         *)
(* Option<(V, E)> is a sequence: <<>> is None, <<p, d>> is Some((p, d)).   *)
(* Option<E> (dist_u) likewise: <<>> is None, <<d>> is Some(d).            *)
(* A BTreeMap is a function whose DOMAIN is its key set; iteration visits  *)
(* the keys in ascending order.                                            *)
(*                                                                         *)
(* The weight type E is generic; weights here are unbounded integers, so   *)
(* the model covers the runs in which no sum leaves E's range.             *)
(*                                                                         *)
(* Spec builds graphs by add_edge calls alone, from the empty graph.       *)
(* SpecRaw also lets the caller insert a vertex with any edge mapping      *)
(* (Graph is a public BTreeMap), which yields graphs whose destinations    *)
(* need not be outer keys.                                                 *)
(***************************************************************************)
EXTENDS Integers, Sequences, FiniteSets, TLC

\* The caller's graph and bellman_ford's locals
VARIABLES graph, pc, start, ans, pass, us, cur_u, dist_u, vs, es, ret, calls,
          first

\* History of the current call of bellman_ford: the mapping as it was at the
\* head of each relaxation pass and when the relaxation loop was left
VARIABLE pass_ans

\* The other functions of the repository, one call at a time: the call made
\* (function and arguments), the slice it works on, the slice as the caller
\* passed it, the control point, the locals, and what the call returned
VARIABLES call, arr, orig, at, loc, outcome

bfvars == <<graph, pc, start, ans, pass, us, cur_u, dist_u, vs, es, ret, calls,
            first, pass_ans>>

others == <<call, arr, orig, at, loc, outcome>>

vars == <<bfvars, others>>

\* Bounds of the model: nodes are 1..MaxNode, weights are
\* -MaxWeight..MaxWeight, and a graph holds at most MaxEdges edges.
MaxNode == 3

MaxWeight == 2

MaxEdges == 3

\* SpecWide has one node more, 0..MaxNode, and weights
\* -MaxWideWeight..MaxWideWeight.
MaxWideWeight == 1

\* The weight types of SpecWidth are the signed integers of 2..MaxBits bits
MaxBits == 8

\* Slices hold at most MaxLen elements, each in 0..MaxVal.
MaxLen == 4

MaxVal == 3

Nodes == 1..MaxNode

Weights == (0 - MaxWeight)..MaxWeight

----------------------------------------------------------------------------
(* BTreeMap *)

EmptyMap == <<>>

MapInsert(m, k, x) == [y \in (DOMAIN m) \cup {k} |-> IF y = k THEN x ELSE m[y]]

EntryOrInsert(m, k, x) == IF k \in DOMAIN m THEN m ELSE MapInsert(m, k, x)

RECURSIVE SortedSeq(_)
SortedSeq(S) ==
  IF S = {} THEN <<>>
  ELSE LET m == CHOOSE x \in S : \A y \in S : x <= y
       IN  <<m>> \o SortedSeq(S \ {m})

RECURSIVE Flatten(_)
Flatten(ss) == IF ss = <<>> THEN <<>> ELSE Head(ss) \o Flatten(Tail(ss))

\* for (u, edges) in graph { for (v, d) in edges { ... } }
EdgeSeq(g) ==
  Flatten([i \in 1..Cardinality(DOMAIN g) |->
             LET u  == SortedSeq(DOMAIN g)[i]
                 ds == SortedSeq(DOMAIN g[u])
             IN  [j \in 1..Len(ds) |-> <<u, ds[j], g[u][ds[j]]>>]])

EdgeSet(g) == UNION {{<<u, v>> : v \in DOMAIN g[u]} : u \in DOMAIN g}

NumEdges(g) == Cardinality(EdgeSet(g))

----------------------------------------------------------------------------
(* add_edge *)

\* Mutant of add_edge: the second statement, which enters v2 as a key, is missing
add_edge_no_dest(g, v1, v2, c) ==
  LET g1 == EntryOrInsert(g, v1, EmptyMap)
  IN  [g1 EXCEPT ![v1] = MapInsert(@, v2, c)]

\* Mutant of add_edge: an edge already present keeps its weight
\* (entry(v2).or_insert(c) instead of insert(v2, c))
add_edge_keep_first(g, v1, v2, c) ==
  LET g1 == EntryOrInsert(g, v1, EmptyMap)
      g2 == [g1 EXCEPT ![v1] = EntryOrInsert(@, v2, c)]
  IN  EntryOrInsert(g2, v2, EmptyMap)

\* Mutant of add_edge: v2 is entered with a fresh edge mapping
\* (insert(v2, BTreeMap::new()) instead of entry(v2).or_insert_with(..))
add_edge_reset_dest(g, v1, v2, c) ==
  LET g1 == EntryOrInsert(g, v1, EmptyMap)
      g2 == [g1 EXCEPT ![v1] = MapInsert(@, v2, c)]
  IN  MapInsert(g2, v2, EmptyMap)

add_edge(g, v1, v2, c) ==
  LET g1 == EntryOrInsert(g, v1, EmptyMap)
      g2 == [g1 EXCEPT ![v1] = MapInsert(@, v2, c)]
  IN  EntryOrInsert(g2, v2, EmptyMap)

----------------------------------------------------------------------------
(* bellman_ford: the pure parts *)

None == <<>>

Some(p, d) == <<p, d>>

\* let mut ans = BTreeMap::new(); ans.insert(*start, None);
InitAns(s) == MapInsert(EmptyMap, s, None)

\* Mutant of NumPasses: one pass too few, 1..(graph.len() - 1)
NumPassesShort(g) ==
  IF Cardinality(DOMAIN g) >= 2 THEN Cardinality(DOMAIN g) - 2 ELSE 0

\* 1..(graph.len()) holds graph.len() - 1 values, none when graph.len() <= 1
NumPasses(g) ==
  IF Cardinality(DOMAIN g) >= 1 THEN Cardinality(DOMAIN g) - 1 ELSE 0

\* let dist_u = match ans.get(u) { Some(Some((_, d))) => Some(*d), Some(None) => None, .. }
DistOf(a, u) == IF a[u] = None THEN <<>> ELSE <<a[u][2]>>

\* Mutant of NotShorter: an entry once made is never replaced
NotShorter_keep_entry(du, d, dist) == TRUE

\* Mutant of NotShorter: > for >=, so a path of equal length counts as shorter
NotShorter_strict(du, d, dist) ==
  IF du # <<>> THEN du[1] + d > dist ELSE d > dist

\* The guard of the first match arm: the path through u is not shorter.
NotShorter(du, d, dist) ==
  IF du # <<>> THEN du[1] + d >= dist ELSE d >= dist

\* Mutant of relax_edge: the Some(None) arm is missing, so an edge into the
\* source falls through to the insertion
relax_edge_overwrite(a, u, du, v, d) ==
  IF v \in DOMAIN a /\ a[v] # None /\ NotShorter(du, d, a[v][2])
    THEN [none |-> FALSE, ans |-> a]
  ELSE [none |-> FALSE,
        ans  |-> MapInsert(a, v, Some(u, IF du # <<>> THEN du[1] + d ELSE d))]

\* Mutant of relax_edge: the inserted distance is the edge's weight alone
relax_edge_no_dist_u(a, u, du, v, d) ==
  IF v \in DOMAIN a /\ a[v] # None /\ NotShorter(du, d, a[v][2])
    THEN [none |-> FALSE, ans |-> a]
  ELSE IF v \in DOMAIN a /\ a[v] = None
    THEN IF du # <<>> /\ du[1] >= 0 - d
           THEN [none |-> FALSE, ans |-> a]
           ELSE [none |-> (d > d + d), ans |-> a]
  ELSE [none |-> FALSE, ans |-> MapInsert(a, v, Some(u, d))]

\* The body of `for (v, d) in edges` in the relaxation pass, for edge u -> v of
\* weight d with dist_u = du: the mapping afterwards, and whether the function
\* returns None there.
relax_edge(a, u, du, v, d) ==
  IF v \in DOMAIN a /\ a[v] # None /\ NotShorter(du, d, a[v][2])
    THEN [none |-> FALSE, ans |-> a]
  ELSE IF v \in DOMAIN a /\ a[v] = None
    THEN IF du # <<>> /\ du[1] >= 0 - d
           THEN [none |-> FALSE, ans |-> a]
           ELSE [none |-> (d > d + d), ans |-> a]
  ELSE [none |-> FALSE,
        ans  |-> MapInsert(a, v, Some(u, IF du # <<>> THEN du[1] + d ELSE d))]

\* Mutant of detect_edge: the (Some(Some), Some(Some)) arm is missing
detect_edge_no_both(a, u, v, d) ==
  /\ u \in DOMAIN a
  /\ v \in DOMAIN a
  /\ IF a[u] = None
       THEN IF a[v] = None THEN d > d + d ELSE d < a[v][2]
       ELSE IF a[v] = None THEN a[u][2] < 0 - d ELSE FALSE

\* Mutant of detect_edge: the (Some(Some), Some(None)) arm is missing
detect_edge_no_back(a, u, v, d) ==
  /\ u \in DOMAIN a
  /\ v \in DOMAIN a
  /\ IF a[u] = None
       THEN IF a[v] = None THEN d > d + d ELSE d < a[v][2]
       ELSE IF a[v] = None THEN FALSE ELSE a[u][2] + d < a[v][2]

\* Mutant of detect_edge: the (Some(None), Some(None)) arm is missing
detect_edge_no_self(a, u, v, d) ==
  /\ u \in DOMAIN a
  /\ v \in DOMAIN a
  /\ IF a[u] = None
       THEN IF a[v] = None THEN FALSE ELSE d < a[v][2]
       ELSE IF a[v] = None THEN a[u][2] < 0 - d ELSE a[u][2] + d < a[v][2]

\* Mutant of detect_edge: the last arm compares with <= instead of <
detect_edge_le(a, u, v, d) ==
  /\ u \in DOMAIN a
  /\ v \in DOMAIN a
  /\ IF a[u] = None
       THEN IF a[v] = None THEN d > d + d ELSE d < a[v][2]
       ELSE IF a[v] = None THEN a[u][2] < 0 - d ELSE a[u][2] + d <= a[v][2]

\* The match of the detection pass for edge u -> v of weight d: TRUE when an arm
\* returns None.
detect_edge(a, u, v, d) ==
  /\ u \in DOMAIN a
  /\ v \in DOMAIN a
  /\ IF a[u] = None
       THEN IF a[v] = None THEN d > d + d ELSE d < a[v][2]
       ELSE IF a[v] = None THEN a[u][2] < 0 - d ELSE a[u][2] + d < a[v][2]

----------------------------------------------------------------------------
(* The caller: builds a graph, then calls bellman_ford on it, twice. *)

\* The value of a node variable that is not in scope: no node of the model
NoNode == MaxNode + 1

Idle == /\ pass' = 0 /\ us' = <<>> /\ cur_u' = NoNode /\ dist_u' = <<>>
        /\ vs' = <<>> /\ es' = <<>>

\* No call of another function is made
NoCall == [fn |-> "none"]

OthersIdle ==
  /\ call = NoCall
  /\ arr = <<>>
  /\ orig = <<>>
  /\ at = "idle"
  /\ loc = <<>>
  /\ outcome = <<>>

BfInit ==
  /\ graph = EmptyMap
  /\ pc = "build"
  /\ start = NoNode
  /\ ans = EmptyMap
  /\ pass = 0
  /\ us = <<>>
  /\ cur_u = NoNode
  /\ dist_u = <<>>
  /\ vs = <<>>
  /\ es = <<>>
  /\ ret = "Pending"
  /\ calls = 0
  /\ first = <<>>
  /\ pass_ans = <<>>

Init == BfInit /\ OthersIdle

AddEdge ==
  /\ pc = "build"
  /\ \E v1 \in Nodes, v2 \in Nodes, c \in Weights :
       /\ NumEdges(add_edge(graph, v1, v2, c)) <= MaxEdges
       /\ graph' = add_edge(graph, v1, v2, c)
  /\ UNCHANGED <<pc, start, ans, pass, us, cur_u, dist_u, vs, es, ret, calls,
                 first, pass_ans>>
  /\ UNCHANGED others

\* graph.insert(v, edges) on the outer map, as tests::single_vertex does
EdgeMaps == UNION {[S -> Weights] : S \in SUBSET Nodes}

InsertVertex ==
  /\ pc = "build"
  /\ \E v \in Nodes, edges \in EdgeMaps :
       /\ NumEdges(MapInsert(graph, v, edges)) <= MaxEdges
       /\ graph' = MapInsert(graph, v, edges)
  /\ UNCHANGED <<pc, start, ans, pass, us, cur_u, dist_u, vs, es, ret, calls,
                 first, pass_ans>>
  /\ UNCHANGED others

\* bellman_ford(&graph, &s): lines 87-89
Call ==
  /\ pc = "build"
  /\ \E s \in Nodes :
       /\ start' = s
       /\ ans' = InitAns(s)
  /\ pc' = "loop"
  /\ ret' = "Pending"
  /\ calls' = 1
  /\ Idle
  /\ pass_ans' = <<>>
  /\ UNCHANGED <<graph, first>>
  /\ UNCHANGED others

\* The caller keeps the first result and calls again with the same arguments.
CallAgain ==
  /\ pc = "done"
  /\ calls = 1
  /\ first' = <<ret, ans>>
  /\ ans' = InitAns(start)
  /\ pc' = "loop"
  /\ ret' = "Pending"
  /\ calls' = 2
  /\ Idle
  /\ pass_ans' = <<>>
  /\ UNCHANGED <<graph, start>>
  /\ UNCHANGED others

----------------------------------------------------------------------------
(* bellman_ford: the steps *)

\* return None: the local mapping is dropped
ReturnNone ==
  /\ pc' = "done"
  /\ ret' = "None"
  /\ ans' = EmptyMap
  /\ Idle

\* for _ in 1..(graph.len()): the next pass, or on to the detection pass
PassHead ==
  /\ pc = "loop"
  /\ IF pass < NumPasses(graph)
       THEN /\ pass' = pass + 1
            /\ us' = SortedSeq(DOMAIN graph)
            /\ pc' = "outer"
            /\ es' = <<>>
       ELSE /\ pass' = pass
            /\ us' = <<>>
            /\ pc' = "detect"
            /\ es' = EdgeSeq(graph)
  /\ cur_u' = NoNode
  /\ dist_u' = <<>>
  /\ vs' = <<>>
  /\ pass_ans' = Append(pass_ans, ans)
  /\ UNCHANGED <<graph, start, ans, ret, calls, first>>
  /\ UNCHANGED others

\* Mutant of VisitU: a u that is not in ans is not skipped but treated like the
\* source (dist_u = None)
VisitU_no_continue ==
  /\ pc = "outer"
  /\ IF us = <<>>
       THEN /\ pc' = "loop"
            /\ UNCHANGED <<us, cur_u, dist_u, vs>>
       ELSE /\ us' = Tail(us)
            /\ cur_u' = Head(us)
            /\ dist_u' = IF Head(us) \in DOMAIN ans
                            THEN DistOf(ans, Head(us)) ELSE <<>>
            /\ vs' = SortedSeq(DOMAIN graph[Head(us)])
            /\ pc' = "inner"
  /\ UNCHANGED <<graph, start, ans, pass, es, ret, calls, first, pass_ans>>
  /\ UNCHANGED others

\* Mutant of VisitU: in the first pass a u whose entry is None, the source, is
\* skipped like a u that is not in ans
VisitU_source_later ==
  /\ pc = "outer"
  /\ IF us = <<>>
       THEN /\ pc' = "loop"
            /\ UNCHANGED <<us, cur_u, dist_u, vs>>
       ELSE /\ us' = Tail(us)
            /\ IF Head(us) \in DOMAIN ans /\ ~(pass = 1 /\ ans[Head(us)] = None)
                 THEN /\ cur_u' = Head(us)
                      /\ dist_u' = DistOf(ans, Head(us))
                      /\ vs' = SortedSeq(DOMAIN graph[Head(us)])
                      /\ pc' = "inner"
                 ELSE UNCHANGED <<cur_u, dist_u, vs, pc>>
  /\ UNCHANGED <<graph, start, ans, pass, es, ret, calls, first, pass_ans>>
  /\ UNCHANGED others

\* for (u, edges) in graph: the next u and its dist_u, `continue` when u is
\* not in ans, the end of the pass when no u is left
VisitU ==
  /\ pc = "outer"
  /\ IF us = <<>>
       THEN /\ pc' = "loop"
            /\ UNCHANGED <<us, cur_u, dist_u, vs>>
       ELSE /\ us' = Tail(us)
            /\ IF Head(us) \in DOMAIN ans
                 THEN /\ cur_u' = Head(us)
                      /\ dist_u' = DistOf(ans, Head(us))
                      /\ vs' = SortedSeq(DOMAIN graph[Head(us)])
                      /\ pc' = "inner"
                 ELSE UNCHANGED <<cur_u, dist_u, vs, pc>>
  /\ UNCHANGED <<graph, start, ans, pass, es, ret, calls, first, pass_ans>>
  /\ UNCHANGED others

\* for (v, d) in edges: one edge relaxed, or the end of u's edges
RelaxEdge ==
  /\ pc = "inner"
  /\ IF vs = <<>>
       THEN /\ pc' = "outer"
            /\ cur_u' = NoNode
            /\ dist_u' = <<>>
            /\ UNCHANGED <<ans, pass, us, vs, es, ret>>
       ELSE LET v == Head(vs)
                r == relax_edge(ans, cur_u, dist_u, v, graph[cur_u][v])
            IN  IF r.none
                  THEN ReturnNone
                  ELSE /\ ans' = r.ans
                       /\ vs' = Tail(vs)
                       /\ UNCHANGED <<pc, pass, us, cur_u, dist_u, es, ret>>
  /\ UNCHANGED <<graph, start, calls, first, pass_ans>>
  /\ UNCHANGED others

\* Mutant of DetectEdge: the pass consumes the graph, removing each edge it
\* has examined
DetectEdge_drain ==
  /\ pc = "detect"
  /\ IF es = <<>>
       THEN /\ pc' = "done"
            /\ ret' = "Some"
            /\ ans' = ans
            /\ Idle
            /\ graph' = graph
       ELSE IF detect_edge(ans, Head(es)[1], Head(es)[2], Head(es)[3])
              THEN ReturnNone /\ graph' = graph
              ELSE /\ es' = Tail(es)
                   /\ graph' = [graph EXCEPT ![Head(es)[1]] =
                                  [y \in (DOMAIN @) \ {Head(es)[2]} |-> @[y]]]
                   /\ UNCHANGED <<pc, ans, pass, us, cur_u, dist_u, vs, ret>>
  /\ UNCHANGED <<start, calls, first, pass_ans>>
  /\ UNCHANGED others

\* The detection pass, one edge per step; Some(ans) when no edge is left
DetectEdge ==
  /\ pc = "detect"
  /\ IF es = <<>>
       THEN /\ pc' = "done"
            /\ ret' = "Some"
            /\ ans' = ans
            /\ Idle
       ELSE IF detect_edge(ans, Head(es)[1], Head(es)[2], Head(es)[3])
              THEN ReturnNone
              ELSE /\ es' = Tail(es)
                   /\ UNCHANGED <<pc, ans, pass, us, cur_u, dist_u, vs, ret>>
  /\ UNCHANGED <<graph, start, calls, first, pass_ans>>
  /\ UNCHANGED others

BellmanFord == PassHead \/ VisitU \/ RelaxEdge \/ DetectEdge

Next == AddEdge \/ Call \/ CallAgain \/ BellmanFord

Spec == Init /\ [][Next]_vars

NextRaw == Next \/ InsertVertex

SpecRaw == Init /\ [][NextRaw]_vars

----------------------------------------------------------------------------
(* Graph theory the claims are stated in *)

Succ(g, u) == IF u \in DOMAIN g THEN DOMAIN g[u] ELSE {}

\* The nodes reachable from the nodes of S by a directed path of zero or more edges
RECURSIVE Reach(_, _)
Reach(g, S) ==
  LET T == S \cup UNION {Succ(g, u) : u \in S}
  IN  IF T = S THEN S ELSE Reach(g, T)

\* The total weights of the directed paths from u to t that repeat no node and
\* visit none of `seen` after u
RECURSIVE PathWeights(_, _, _, _)
PathWeights(g, u, t, seen) ==
  IF u = t THEN {0}
  ELSE UNION {{g[u][x] + w : w \in PathWeights(g, x, t, seen \cup {x})} :
                x \in Succ(g, u) \ seen}

MinOf(S) == CHOOSE x \in S : \A y \in S : x <= y

\* The total weights of the simple directed cycles through x
CycleWeights(g, x) ==
  UNION {{g[x][y] + w : w \in PathWeights(g, y, x, {y})} : y \in Succ(g, x)}

NegCycleThrough(g, x) == \E w \in CycleWeights(g, x) : w < 0

NegCycleReachable(g, s) == \E x \in Reach(g, {s}) : NegCycleThrough(g, x)

\* No dangling destination: every edge's destination is an outer key
Closed(g) == \A u \in DOMAIN g : DOMAIN g[u] \subseteq DOMAIN g

Returned == pc = "done"

ReturnedSome == pc = "done" /\ ret = "Some"

ReturnedNone == pc = "done" /\ ret = "None"

\* A node's recorded distance: 0 for the source
Dist(a, v) == IF a[v] = None THEN 0 ELSE a[v][2]

----------------------------------------------------------------------------
(* Claims *)

\* C1: when bellman_ford returns Some(m) on a graph built by add_edge calls,
\* every node of m other than the source carries the minimum total weight over
\* all directed paths from the source to it.
C1_MinimumDistance ==
  ReturnedSome =>
    \A v \in (DOMAIN ans) \ {start} :
      /\ ans[v] # None
      /\ PathWeights(graph, start, v, {start}) # {}
      /\ ans[v][2] = MinOf(PathWeights(graph, start, v, {start}))

\* A node with several paths from the source, recorded at less than its direct edge
C1_Witness ==
  /\ ReturnedSome
  /\ \E v \in (DOMAIN ans) \ {start} :
       /\ Cardinality(PathWeights(graph, start, v, {start})) >= 2
       /\ v \in Succ(graph, start)
       /\ ans[v][2] < graph[start][v]

\* C2: whenever a directed cycle of strictly negative total weight is reachable
\* from the source (the source on it or not), bellman_ford returns None, for
\* every graph value.
C2_NegativeCycleGivesNone ==
  (Returned /\ NegCycleReachable(graph, start)) => ret = "None"

\* The source lies on a negative cycle of two or more edges
C2_Witness ==
  /\ ReturnedNone
  /\ NegCycleThrough(graph, start)
  /\ start \notin Succ(graph, start)

\* C3: on a graph built by add_edge calls, when no negative cycle is reachable
\* from the source, bellman_ford returns Some, also when a negative cycle lies
\* in a part of the graph the source does not reach.
C3_NoReachableNegativeCycleGivesSome ==
  (Returned /\ ~NegCycleReachable(graph, start)) => ret = "Some"

\* Some is returned although an unreachable part holds a negative cycle
C3_Witness ==
  /\ ReturnedSome
  /\ \E x \in (DOMAIN graph) \ Reach(graph, {start}) : NegCycleThrough(graph, x)

\* C4: the key set of a returned mapping is exactly the set of nodes reachable
\* from the source by zero or more edges.
C4_KeysAreReachableSet ==
  ReturnedSome => DOMAIN ans = Reach(graph, {start})

\* A node of the graph is absent and a node other than the source is present
C4_Witness ==
  /\ ReturnedSome
  /\ (DOMAIN graph) \ (DOMAIN ans) # {}
  /\ (DOMAIN ans) \ {start} # {}

\* C5: in every state of the result mapping, from its initialisation to its
\* return, the source maps to None and no other node does.
C5_SourceIsTheOnlyNone ==
  (pc \in {"loop", "outer", "inner", "detect"} \/ ReturnedSome) =>
    /\ start \in DOMAIN ans
    /\ ans[start] = None
    /\ \A v \in (DOMAIN ans) \ {start} : ans[v] # None

\* Mid-pass, an edge from another reached node back to the source is behind us
C5_Witness ==
  /\ pc = "inner"
  /\ cur_u # start
  /\ start \in Succ(graph, cur_u)
  /\ \A i \in 1..Len(vs) : vs[i] > start
  /\ start \in Succ(graph, start)

\* C6: in a returned mapping every entry v -> Some((p, d)) has p a key of the
\* mapping, p -> v an edge of the graph, and d = dist(p) + weight(p, v).
C6_PredecessorEdgeConsistent ==
  ReturnedSome =>
    \A v \in DOMAIN ans :
      ans[v] # None =>
        /\ ans[v][1] \in DOMAIN ans
        /\ v \in Succ(graph, ans[v][1])
        /\ ans[v][2] = Dist(ans, ans[v][1]) + graph[ans[v][1]][v]

\* An entry whose predecessor is not the source and lies at a nonzero distance
C6_Witness ==
  /\ ReturnedSome
  /\ \E v \in DOMAIN ans :
       /\ ans[v] # None
       /\ ans[v][1] # start
       /\ Dist(ans, ans[v][1]) # 0

\* C7: a negative self-loop on the source gives None, also in the graph whose
\* only vertex is the source, where no relaxation pass runs; a self-loop of
\* weight zero or more on the source gives no None when no negative cycle is
\* reachable.
C7_SourceSelfLoop ==
  (Returned /\ start \in Succ(graph, start)) =>
    /\ graph[start][start] < 0 => ret = "None"
    /\ (graph[start][start] >= 0 /\ ~NegCycleReachable(graph, start))
         => ret = "Some"

\* The single-vertex graph with a negative self-loop: no pass ran, None returned
C7_Witness ==
  /\ ReturnedNone
  /\ DOMAIN graph = {start}
  /\ NumPasses(graph) = 0
  /\ graph[start][start] < 0

\* C8: when the source has no outgoing edge (it is no outer key, or its edge
\* mapping is empty), bellman_ford returns exactly Some({source: None}),
\* whatever else the graph holds.
C8_SourceWithoutEdges ==
  (Returned /\ Succ(graph, start) = {}) =>
    /\ ret = "Some"
    /\ DOMAIN ans = {start}
    /\ ans[start] = None

\* The source is a key with an empty edge mapping beside a negative cycle
C8_Witness ==
  /\ ReturnedSome
  /\ start \in DOMAIN graph
  /\ graph[start] = EmptyMap
  /\ \E x \in DOMAIN graph : NegCycleThrough(graph, x)

C10_NoDanglingDestination ==
  /\ Closed(graph)
  /\ \A u \in DOMAIN graph : graph[u] = EmptyMap <=> Succ(graph, u) = {}

\* A destination without outgoing edges is a key with an empty edge mapping
C10_Witness ==
  /\ pc = "build"
  /\ \E u \in DOMAIN graph, v \in DOMAIN graph :
       /\ u # v
       /\ v \in Succ(graph, u)
       /\ graph[v] = EmptyMap

----------------------------------------------------------------------------
(* add_edge, call by call *)

\* add_edge(&mut graph, v1, v2, c); the caller keeps the graph as it was
AddEdgeCall ==
  /\ pc = "build"
  /\ \E v1 \in Nodes, v2 \in Nodes, c \in Weights :
       /\ NumEdges(add_edge(graph, v1, v2, c)) <= MaxEdges
       /\ graph' = add_edge(graph, v1, v2, c)
       /\ call' = [fn |-> "add_edge", g |-> graph, v1 |-> v1, v2 |-> v2,
                   c |-> c, again |-> FALSE]
  /\ UNCHANGED <<pc, start, ans, pass, us, cur_u, dist_u, vs, es, ret, calls,
                 first, pass_ans>>
  /\ UNCHANGED <<arr, orig, at, loc, outcome>>

\* The same call once more
AddEdgeAgain ==
  /\ pc = "build"
  /\ call.fn = "add_edge"
  /\ ~call.again
  /\ graph' = add_edge(graph, call.v1, call.v2, call.c)
  /\ call' = [call EXCEPT !.g = graph, !.again = TRUE]
  /\ UNCHANGED <<pc, start, ans, pass, us, cur_u, dist_u, vs, es, ret, calls,
                 first, pass_ans>>
  /\ UNCHANGED <<arr, orig, at, loc, outcome>>

NextAddEdge == AddEdgeCall \/ AddEdgeAgain

SpecAddEdge == Init /\ [][NextAddEdge]_vars

\* C11: after add_edge(g, a, b, w) the graph holds the edge a -> b once, with
\* weight w, also when an edge a -> b of another weight was there before (the
\* number of edges grows only when there was none); the same call repeated
\* leaves the graph as it is.
C11_LastWriteWins ==
  call.fn = "add_edge" =>
    /\ call.v2 \in Succ(graph, call.v1)
    /\ graph[call.v1][call.v2] = call.c
    /\ NumEdges(graph) = NumEdges(call.g)
         + (IF <<call.v1, call.v2>> \in EdgeSet(call.g) THEN 0 ELSE 1)
    /\ call.again => graph = call.g

\* The call has replaced an edge a -> b of a different weight
C11_Witness ==
  /\ call.fn = "add_edge"
  /\ <<call.v1, call.v2>> \in EdgeSet(call.g)
  /\ call.g[call.v1][call.v2] # call.c
  /\ graph[call.v1][call.v2] = call.c

----------------------------------------------------------------------------
(* dijkstra (src/src/graph/dijkstra.rs) *)

\* The order of the heap's entries (dist, node, prev): tuples compare
\* lexicographically
TupleLess(x, y) ==
  \/ x[1] < y[1]
  \/ x[1] = y[1] /\ x[2] < y[2]
  \/ x[1] = y[1] /\ x[2] = y[2] /\ x[3] < y[3]

\* BinaryHeap<Reverse<..>>::pop: the index of a least entry of the heap q
MinIndex(q) ==
  CHOOSE i \in 1..Len(q) : \A j \in 1..Len(q) : ~TupleLess(q[j], q[i])

RemoveAt(q, i) == [j \in 1..(Len(q) - 1) |-> IF j < i THEN q[j] ELSE q[j + 1]]

\* for (new, weight) in &graph[start]: the neighbours of the start, in key
\* order, entered into ans and pushed on the heap
RECURSIVE dijkstra_init(_, _, _, _, _)
dijkstra_init(g, s, news, a, q) ==
  IF news = <<>> THEN [ans |-> a, prio |-> q]
  ELSE LET new == Head(news)
       IN  dijkstra_init(g, s, Tail(news),
                         MapInsert(a, new, Some(s, g[s][new])),
                         Append(q, <<g[s][new], new, s>>))

\* for (next, weight) in &graph[new]
RECURSIVE dijkstra_scan(_, _, _, _, _, _)
dijkstra_scan(g, new, dist_new, nexts, a, q) ==
  IF nexts = <<>> THEN [ans |-> a, prio |-> q]
  ELSE LET next   == Head(nexts)
           weight == g[new][next]
       IN  IF next \in DOMAIN a /\ a[next] # None
                /\ dist_new + weight >= a[next][2]
             THEN dijkstra_scan(g, new, dist_new, Tail(nexts), a, q)
           ELSE IF next \in DOMAIN a /\ a[next] = None
             THEN dijkstra_scan(g, new, dist_new, Tail(nexts), a, q)
           ELSE dijkstra_scan(g, new, dist_new, Tail(nexts),
                              MapInsert(a, next, Some(new, weight + dist_new)),
                              Append(q, <<weight + dist_new, next, new>>))

\* while let Some(Reverse((dist_new, new, prev))) = prio.pop()
RECURSIVE dijkstra_loop(_, _, _)
dijkstra_loop(g, a, q) ==
  IF q = <<>> THEN a
  ELSE LET i        == MinIndex(q)
           dist_new == q[i][1]
           new      == q[i][2]
           prev     == q[i][3]
           rest     == RemoveAt(q, i)
       IN  IF a[new] # None /\ a[new][1] = prev /\ a[new][2] = dist_new
             THEN LET r == dijkstra_scan(g, new, dist_new,
                                         SortedSeq(DOMAIN g[new]), a, rest)
                  IN  dijkstra_loop(g, r.ans, r.prio)
             ELSE dijkstra_loop(g, a, rest)

dijkstra(g, s) ==
  LET r == dijkstra_init(g, s, SortedSeq(DOMAIN g[s]), InitAns(s), <<>>)
  IN  dijkstra_loop(g, r.ans, r.prio)

NonNegative(g) == \A u \in DOMAIN g : \A v \in DOMAIN g[u] : g[u][v] >= 0

\* C12: on a graph built by add_edge calls, with weights of zero or more and
\* the source an outer key, dijkstra returns the key set of bellman_ford's Some
\* result and the same distance for every node (0 for the source).
C12_DijkstraAgreesWithBellmanFord ==
  (ReturnedSome /\ NonNegative(graph) /\ start \in DOMAIN graph) =>
    /\ DOMAIN dijkstra(graph, start) = DOMAIN ans
    /\ \A v \in DOMAIN ans : Dist(dijkstra(graph, start), v) = Dist(ans, v)

\* What holds of the code: the same, for every node other than the source
C12_AgreesOffSource ==
  (ReturnedSome /\ NonNegative(graph) /\ start \in DOMAIN graph) =>
    /\ DOMAIN dijkstra(graph, start) = DOMAIN ans
    /\ \A v \in (DOMAIN ans) \ {start} :
         Dist(dijkstra(graph, start), v) = Dist(ans, v)

----------------------------------------------------------------------------
(* Slices. Indices are the code's, from 0: At(a, i) is a[i]. *)

Values == 0..MaxVal

Slices == UNION {[1..n -> Values] : n \in 0..MaxLen}

At(a, i) == a[i + 1]

Put(a, i, x) == [a EXCEPT ![i + 1] = x]

Swap(a, i, j) == [a EXCEPT ![i + 1] = a[j + 1], ![j + 1] = a[i + 1]]

\* &a[from..to]: the elements at indices from .. to - 1
Slice(a, from, to) == [k \in 1..(to - from) |-> a[from + k]]

Min2(x, y) == IF x <= y THEN x ELSE y

Sorted(a) == \A i \in 1..(Len(a) - 1) : a[i] <= a[i + 1]

Count(a, x) == Cardinality({i \in 1..Len(a) : a[i] = x})

IsPermutation(a, b) ==
  /\ Len(a) = Len(b)
  /\ \A i \in 1..Len(a) : Count(a, a[i]) = Count(b, a[i])

\* What a call that panicked leaves: the slice as it was at the panic
Panicked(a) == [panic |-> TRUE, arr |-> a]

Completed(a) == [panic |-> FALSE, arr |-> a]

----------------------------------------------------------------------------
(* tim_sort (src/src/sorting/tim_sort.rs) *)

minimum == 64

\* while n >= minimum { r |= n & 1; n >>= 1; }  n + r
RECURSIVE find_min_run_loop(_, _)
find_min_run_loop(n, r) ==
  IF n >= minimum
    THEN find_min_run_loop(n \div 2, IF n % 2 = 1 THEN 1 ELSE r)
    ELSE n + r

find_min_run(n) == find_min_run_loop(n, 0)

\* while element < arr[j] && j >= left { arr[j + 1] = arr[j]; j -= 1; }
\* arr[j + 1] = element;
\* j is a usize: `j -= 1` at j = 0 panics in a debug build; in a release build
\* it wraps to usize::MAX and the next `arr[j]` panics, out of bounds.
RECURSIVE insert_while(_, _, _, _)
insert_while(a, element, j, left) ==
  IF element < At(a, j) /\ j >= left
    THEN IF j = 0
           THEN Panicked(Put(a, j + 1, At(a, j)))
           ELSE insert_while(Put(a, j + 1, At(a, j)), element, j - 1, left)
    ELSE Completed(Put(a, j + 1, element))

\* for i in left + 1..right + 1
RECURSIVE insert_for(_, _, _, _)
insert_for(a, i, left, right) ==
  IF i >= right + 1 THEN Completed(a)
  ELSE IF i >= Len(a) THEN Panicked(a)
  ELSE LET r == insert_while(a, At(a, i), i - 1, left)
       IN  IF r.panic THEN r ELSE insert_for(r.arr, i + 1, left, right)

insert_sort(a, left, right) == insert_for(a, left + 1, left, right)

\* The three copying loops of merge: a[k..] filled from left_arr and right_arr
RECURSIVE merge_loop(_, _, _, _, _, _)
merge_loop(a, left_arr, right_arr, i, j, k) ==
  IF j < Len(right_arr) /\ i < Len(left_arr)
    THEN IF At(left_arr, i) <= At(right_arr, j)
           THEN merge_loop(Put(a, k, At(left_arr, i)), left_arr, right_arr,
                           i + 1, j, k + 1)
           ELSE merge_loop(Put(a, k, At(right_arr, j)), left_arr, right_arr,
                           i, j + 1, k + 1)
  ELSE IF i < Len(left_arr)
    THEN merge_loop(Put(a, k, At(left_arr, i)), left_arr, right_arr,
                    i + 1, j, k + 1)
  ELSE IF j < Len(right_arr)
    THEN merge_loop(Put(a, k, At(right_arr, j)), left_arr, right_arr,
                    i, j + 1, k + 1)
  ELSE a

merge(a, left, mid, right) ==
  LET array_length1 == mid - left + 1
      array_length2 == right - mid
  IN  merge_loop(a, Slice(a, left, left + array_length1),
                 Slice(a, mid + 1, mid + 1 + array_length2), 0, 0, left)

\* for start in (0..n).filter(|x| x % min_run == 0) { insert_sort(..) }
RECURSIVE tim_runs(_, _, _)
tim_runs(a, run_start, min_run) ==
  IF run_start >= Len(a) THEN Completed(a)
  ELSE LET r == insert_sort(a, run_start,
                            Min2(run_start + min_run - 1, Len(a) - 1))
       IN  IF r.panic THEN r
           ELSE tim_runs(r.arr, run_start + min_run, min_run)

\* for left in (0..n).filter(|x| x % (2 * size) == 0) { merge(..) }
RECURSIVE tim_merge_for(_, _, _)
tim_merge_for(a, left, size) ==
  IF left >= Len(a) THEN a
  ELSE tim_merge_for(merge(a, left, Min2(Len(a) - 1, left + size - 1),
                           Min2(left + 2 * size - 1, Len(a) - 1)),
                     left + 2 * size, size)

\* while size < n { ..; size = 2 * size; }
RECURSIVE tim_merge_while(_, _)
tim_merge_while(a, size) ==
  IF size < Len(a) THEN tim_merge_while(tim_merge_for(a, 0, size), 2 * size)
  ELSE a

tim_sort(a) ==
  LET min_run == find_min_run(Len(a))
      r       == tim_runs(a, 0, min_run)
  IN  IF r.panic THEN r ELSE Completed(tim_merge_while(r.arr, min_run))

\* A call starts from any slice within the bounds
InitSlice ==
  /\ BfInit
  /\ call = NoCall
  /\ arr \in Slices
  /\ orig = arr
  /\ at = "idle"
  /\ loc = <<>>
  /\ outcome = <<>>

TimSort ==
  /\ at = "idle"
  /\ call' = [fn |-> "tim_sort"]
  /\ arr' = tim_sort(arr).arr
  /\ outcome' = [panic |-> tim_sort(arr).panic]
  /\ at' = "done"
  /\ UNCHANGED <<orig, loc>>
  /\ UNCHANGED bfvars

InsertSort ==
  /\ at = "idle"
  /\ \E left \in 0..(Len(arr) - 1), right \in 0..(Len(arr) - 1) :
       /\ left <= right
       /\ call' = [fn |-> "insert_sort", left |-> left, right |-> right]
       /\ arr' = insert_sort(arr, left, right).arr
       /\ outcome' = [panic |-> insert_sort(arr, left, right).panic]
  /\ at' = "done"
  /\ UNCHANGED <<orig, loc>>
  /\ UNCHANGED bfvars

NextTim == TimSort \/ InsertSort

SpecTim == InitSlice /\ [][NextTim]_vars

\* C13: tim_sort leaves every slice, the empty one included, sorted and a
\* permutation of what it was, with no index or subtraction out of range;
\* insert_sort does so for the range left..=right of a slice.
C13_TimSortSorts ==
  /\ (at = "done" /\ call.fn = "tim_sort") =>
       /\ ~outcome.panic
       /\ Sorted(arr)
       /\ IsPermutation(arr, orig)
  /\ (at = "done" /\ call.fn = "insert_sort") =>
       /\ ~outcome.panic
       /\ Sorted(Slice(arr, call.left, call.right + 1))
       /\ IsPermutation(arr, orig)

----------------------------------------------------------------------------
(* radix_sort (src/src/sorting/radix_sort.rs), one step per pass of its
   while loop *)

\* arr.iter().max() of a non-empty slice
MaxElem(a) == CHOOSE x \in {a[i] : i \in 1..Len(a)} :
                \A i \in 1..Len(a) : a[i] <= x

RECURSIVE next_power_of_two_from(_, _)
next_power_of_two_from(n, p) ==
  IF p >= n THEN p ELSE next_power_of_two_from(n, 2 * p)

\* usize::next_power_of_two: the least power of two >= n (1 for n = 0)
next_power_of_two(n) == next_power_of_two_from(n, 1)

\* let digit_of = |x| x as usize / place % radix;
digit_of(x, place, radix) == (x \div place) % radix

\* for &x in arr.iter() { counter[digit_of(x)] += 1; }
RECURSIVE count_digits(_, _, _, _, _)
count_digits(a, i, counter, place, radix) ==
  IF i >= Len(a) THEN counter
  ELSE LET d == digit_of(At(a, i), place, radix)
       IN  count_digits(a, i + 1, [counter EXCEPT ![d] = @ + 1], place, radix)

\* for i in 1..radix { counter[i] += counter[i - 1]; }
RECURSIVE last_indices(_, _, _)
last_indices(counter, i, radix) ==
  IF i >= radix THEN counter
  ELSE last_indices([counter EXCEPT ![i] = @ + counter[i - 1]], i + 1, radix)

\* for &x in arr_copy.iter().rev() { counter[d] -= 1; arr[counter[d]] = x; }
\* i is the index of x in arr_copy, walked from the last down to 0
RECURSIVE write_back(_, _, _, _, _, _)
write_back(a, arr_copy, i, counter, place, radix) ==
  IF i < 0 THEN a
  ELSE LET d == digit_of(At(arr_copy, i), place, radix)
       IN  write_back(Put(a, counter[d] - 1, At(arr_copy, i)), arr_copy,
                      i - 1, [counter EXCEPT ![d] = @ - 1], place, radix)

\* The body of the while loop but for `place *= radix`
radix_pass(a, place, radix) ==
  LET counter == last_indices(
                   count_digits(a, 0, [d \in 0..(radix - 1) |-> 0], place,
                                radix),
                   1, radix)
  IN  write_back(a, a, Len(a) - 1, counter, place, radix)

\* Lines 31-39: None => return, else max, radix and place = 1
RadixCall ==
  /\ at = "idle"
  /\ call' = [fn |-> "radix_sort"]
  /\ IF arr = <<>>
       THEN at' = "done" /\ loc' = loc
       ELSE /\ at' = "loop"
            /\ loc' = [max |-> MaxElem(arr),
                       radix |-> next_power_of_two(Len(arr)), place |-> 1]
  /\ UNCHANGED <<arr, orig, outcome>>
  /\ UNCHANGED bfvars

\* One pass of `while place <= max`
RadixPass ==
  /\ at = "loop"
  /\ call.fn = "radix_sort"
  /\ loc.place <= loc.max
  /\ arr' = radix_pass(arr, loc.place, loc.radix)
  /\ loc' = [loc EXCEPT !.place = loc.place * loc.radix]
  /\ UNCHANGED <<call, orig, at, outcome>>
  /\ UNCHANGED bfvars

\* The loop condition fails: the function returns
RadixReturn ==
  /\ at = "loop"
  /\ call.fn = "radix_sort"
  /\ loc.place > loc.max
  /\ at' = "done"
  /\ UNCHANGED <<call, arr, orig, loc, outcome>>
  /\ UNCHANGED bfvars

NextRadix == RadixCall \/ RadixPass \/ RadixReturn

SpecRadix == InitSlice /\ [][NextRadix]_vars

\* C14: radix_sort terminates on every input of every length (0, 1, 2 or
\* more) and leaves the slice sorted and a permutation of what it was.
\* Termination: whenever the loop goes on, the pass it is about to make
\* strictly increases place, the only thing its condition `place <= max`
\* depends on that changes; a pass that leaves place as it is repeats for ever.
C14_RadixSortTerminatesSorted ==
  /\ (call.fn = "radix_sort" /\ at = "loop" /\ loc.place <= loc.max) =>
       loc.place * loc.radix > loc.place
  /\ (call.fn = "radix_sort" /\ at = "done") =>
       /\ Sorted(arr)
       /\ IsPermutation(arr, orig)

----------------------------------------------------------------------------
(* kth_smallest (src/src/search/kth_smallest.rs) over partition
   (src/src/sorting/quick_sort.rs) *)

\* Option<T>: None is <<>> as above, Some(x) is <<x>>
SomeOf(x) == <<x>>

\* while left < right && arr[right] >= arr[pivot] { right -= 1; }
RECURSIVE scan_right(_, _, _, _)
scan_right(a, pivot, left, right) ==
  IF left < right /\ At(a, right) >= At(a, pivot)
    THEN scan_right(a, pivot, left, right - 1)
    ELSE right

\* while left < right && arr[left] <= arr[pivot] { left += 1; }
RECURSIVE scan_left(_, _, _, _)
scan_left(a, pivot, left, right) ==
  IF left < right /\ At(a, left) <= At(a, pivot)
    THEN scan_left(a, pivot, left + 1, right)
    ELSE left

\* The outer while loop of partition_helper; returns the slice and `left`
RECURSIVE partition_helper_loop(_, _, _, _)
partition_helper_loop(a, pivot, left, right) ==
  IF left < right
    THEN LET r == scan_right(a, pivot, left, right)
             l == scan_left(a, pivot, left, r)
         IN  partition_helper_loop(IF l # r THEN Swap(a, l, r) ELSE a,
                                   pivot, l, r)
    ELSE [arr |-> a, pos |-> left]

partition_helper(a, pivot, lo, hi) == partition_helper_loop(a, pivot, lo, hi)

\* partition panics on an index that is not in the slice: arr[right] when the
\* loop is entered with hi >= len, arr.swap(pivot, pos) when it is not entered
\* (pos = lo) and lo >= len
partition(a, lo, hi) ==
  IF (lo < hi /\ hi >= Len(a)) \/ (lo >= hi /\ lo >= Len(a))
    THEN [panic |-> TRUE, arr |-> a, pos |-> lo]
    ELSE LET h == partition_helper(a, lo, lo, hi)
         IN  [panic |-> FALSE, arr |-> Swap(h.arr, lo, h.pos), pos |-> h.pos]

\* Mutant of _kth_smallest: the right-hand recursion keeps k instead of k - i
RECURSIVE _kth_smallest_keep_k(_, _, _, _)
_kth_smallest_keep_k(a, k, lo, hi) ==
  IF lo = hi THEN [panic |-> FALSE, arr |-> a, val |-> At(a, lo)]
  ELSE LET p     == partition(a, lo, hi)
           pivot == p.pos
           i     == pivot - lo + 1
       IN  IF p.panic THEN [panic |-> TRUE, arr |-> p.arr, val |-> 0]
           ELSE IF k = i
             THEN [panic |-> FALSE, arr |-> p.arr, val |-> At(p.arr, pivot)]
           ELSE IF k < i
             THEN IF pivot = 0
                    THEN [panic |-> TRUE, arr |-> p.arr, val |-> 0]
                    ELSE _kth_smallest_keep_k(p.arr, k, lo, pivot - 1)
           ELSE _kth_smallest_keep_k(p.arr, k, pivot + 1, hi)

\* `pivot - 1` with pivot = 0 is a usize underflow: a debug build panics at
\* the subtraction; a release build passes hi = usize::MAX and partition
\* panics reading arr[hi]. val is meaningless when panic is TRUE.
RECURSIVE _kth_smallest(_, _, _, _)
_kth_smallest(a, k, lo, hi) ==
  IF lo = hi THEN [panic |-> FALSE, arr |-> a, val |-> At(a, lo)]
  ELSE LET p     == partition(a, lo, hi)
           pivot == p.pos
           i     == pivot - lo + 1
       IN  IF p.panic THEN [panic |-> TRUE, arr |-> p.arr, val |-> 0]
           ELSE IF k = i
             THEN [panic |-> FALSE, arr |-> p.arr, val |-> At(p.arr, pivot)]
           ELSE IF k < i
             THEN IF pivot = 0
                    THEN [panic |-> TRUE, arr |-> p.arr, val |-> 0]
                    ELSE _kth_smallest(p.arr, k, lo, pivot - 1)
           ELSE _kth_smallest(p.arr, k - i, pivot + 1, hi)

kth_smallest(input, k) ==
  IF input = <<>> THEN [panic |-> FALSE, arr |-> input, ret |-> None]
  ELSE LET r == _kth_smallest(input, k, 0, Len(input) - 1)
       IN  [panic |-> r.panic, arr |-> r.arr,
            ret |-> IF r.panic THEN None ELSE SomeOf(r.val)]

\* No k of an earlier call
NoK == MaxLen + 2

\* A call of kth_smallest on the slice as earlier calls left it; input is the
\* slice the call received, prev the k of the call before it
KthSmallest ==
  /\ at \in {"idle", "done"}
  /\ outcome # <<>> => ~outcome.panic
  /\ \E k \in 0..(MaxLen + 1) :
       /\ call' = [fn |-> "kth_smallest", k |-> k, input |-> arr,
                   prev |-> IF call.fn = "kth_smallest" THEN call.k ELSE NoK]
       /\ arr' = kth_smallest(arr, k).arr
       /\ outcome' = [panic |-> kth_smallest(arr, k).panic,
                      ret |-> kth_smallest(arr, k).ret]
  /\ at' = "done"
  /\ UNCHANGED <<orig, loc>>
  /\ UNCHANGED bfvars

NextKth == KthSmallest

SpecKth == InitSlice /\ [][NextKth]_vars

\* C15: kth_smallest returns None when the slice is empty or k is out of
\* range (k = 0 or k greater than the length).
C15_OutOfRangeGivesNone ==
  (/\ call.fn = "kth_smallest"
   /\ (call.input = <<>> \/ call.k = 0 \/ call.k > Len(call.input))) =>
    /\ ~outcome.panic
    /\ outcome.ret = None

\* The k-th smallest element of a (k from 1), counted with repetitions
KthOf(a, k) ==
  CHOOSE v \in {a[i] : i \in 1..Len(a)} :
    /\ Cardinality({i \in 1..Len(a) : a[i] < v}) < k
    /\ Cardinality({i \in 1..Len(a) : a[i] <= v}) >= k

\* C16: for a non-empty slice and 1 <= k <= length, kth_smallest returns the
\* element at index k - 1 of the sorted slice and leaves the slice a
\* permutation of what it was; calls repeated on the same slice with other
\* k stay correct.
C16_KthSmallestCorrect ==
  (/\ call.fn = "kth_smallest"
   /\ call.input # <<>>
   /\ 1 <= call.k
   /\ call.k <= Len(call.input)) =>
    /\ ~outcome.panic
    /\ outcome.ret = SomeOf(KthOf(orig, call.k))
    /\ IsPermutation(arr, orig)
    /\ IsPermutation(arr, call.input)

\* A later call with another k, on a slice that earlier calls reordered and
\* that this call reordered again
C16_Witness ==
  /\ call.fn = "kth_smallest"
  /\ call.prev \in 1..Len(orig)
  /\ call.k \in 1..Len(orig)
  /\ call.prev # call.k
  /\ call.input # orig
  /\ arr # call.input
  /\ outcome.ret = SomeOf(KthOf(orig, call.k))

----------------------------------------------------------------------------
(* burrows_wheeler_transform and its inverse
   (src/src/string/burrows_wheeler_transform.rs). A string is a sequence of
   characters, a character its code point. *)

\* 'A', 'B', 'a', 'b'
Chars == {65, 66, 97, 98}

Strings == UNION {[1..n -> Chars] : n \in 0..MaxLen}

\* char::to_lowercase on ASCII: 'A'..'Z' (65..90) map to 'a'..'z'
char_to_lowercase(c) == IF c >= 65 /\ c <= 90 THEN c + 32 ELSE c

to_lowercase(s) == [i \in 1..Len(s) |-> char_to_lowercase(s[i])]

\* String's Ord: s <= t, lexicographic by code point
StrLeq(s, t) ==
  \/ /\ Len(s) <= Len(t)
     /\ \A i \in 1..Len(s) : s[i] = t[i]
  \/ \E i \in 1..Min2(Len(s), Len(t)) :
       /\ \A j \in 1..(i - 1) : s[j] = t[j]
       /\ s[i] < t[i]

\* input[i..].to_owned() + &input[..i]
Rotation(input, i) ==
  [k \in 1..Len(input) |-> input[((k - 1 + i) % Len(input)) + 1]]

\* x placed after every element of the sorted sequence whose key is <= its
\* own: what a stable sort does with an element that comes later
RECURSIVE insert_by_lowercase(_, _, _)
insert_by_lowercase(sorted, x, n) ==
  IF n = 0 \/ StrLeq(to_lowercase(sorted[n]), to_lowercase(x))
    THEN SubSeq(sorted, 1, n) \o <<x>> \o SubSeq(sorted, n + 1, Len(sorted))
    ELSE insert_by_lowercase(sorted, x, n - 1)

\* table.sort_by_key(|a| a.to_lowercase()): a stable sort
RECURSIVE sort_by_lowercase(_, _, _)
sort_by_lowercase(table, i, sorted) ==
  IF i > Len(table) THEN sorted
  ELSE sort_by_lowercase(table, i + 1,
                         insert_by_lowercase(sorted, table[i], Len(sorted)))

\* The last i with table[i] = input, 0 when the table is empty (i from 0)
RECURSIVE index_of_input(_, _, _, _)
index_of_input(table, input, i, index) ==
  IF i >= Len(table) THEN index
  ELSE index_of_input(table, input, i + 1,
                      IF At(table, i) = input THEN i ELSE index)

burrows_wheeler_transform(input) ==
  LET len   == Len(input)
      table == sort_by_lowercase([i \in 1..len |-> Rotation(input, i - 1)],
                                 1, <<>>)
  IN  [encoded |-> [i \in 1..len |-> table[i][len]],
       index   |-> index_of_input(table, input, 0, 0)]

RECURSIVE insert_by_char(_, _, _)
insert_by_char(sorted, x, n) ==
  IF n = 0 \/ sorted[n][2] <= x[2]
    THEN SubSeq(sorted, 1, n) \o <<x>> \o SubSeq(sorted, n + 1, Len(sorted))
    ELSE insert_by_char(sorted, x, n - 1)

\* table.sort_by(|a, b| a.1.cmp(&b.1)): a stable sort of (index, char) pairs
RECURSIVE sort_by_char(_, _, _)
sort_by_char(table, i, sorted) ==
  IF i > Len(table) THEN sorted
  ELSE sort_by_char(table, i + 1,
                    insert_by_char(sorted, table[i], Len(sorted)))

\* for _ in 0..len { decoded.push(table[idx].1); idx = table[idx].0; }
RECURSIVE decode(_, _, _, _)
decode(table, idx, n, decoded) ==
  IF n = 0 THEN decoded
  ELSE decode(table, At(table, idx)[1], n - 1,
              decoded \o <<At(table, idx)[2]>>)

inv_burrows_wheeler_transform(encoded, index) ==
  LET len   == Len(encoded)
      table == sort_by_char([i \in 1..len |-> <<i - 1, encoded[i]>>], 1, <<>>)
  IN  decode(table, index, len, <<>>)

InitBwt ==
  /\ BfInit
  /\ call = NoCall
  /\ arr \in Strings
  /\ orig = arr
  /\ at = "idle"
  /\ loc = <<>>
  /\ outcome = <<>>

Transform ==
  /\ at = "idle"
  /\ call' = [fn |-> "burrows_wheeler_transform"]
  /\ loc' = burrows_wheeler_transform(arr)
  /\ at' = "encoded"
  /\ UNCHANGED <<arr, orig, outcome>>
  /\ UNCHANGED bfvars

InverseTransform ==
  /\ at = "encoded"
  /\ call' = [fn |-> "inv_burrows_wheeler_transform"]
  /\ outcome' = [decoded |-> inv_burrows_wheeler_transform(loc.encoded,
                                                           loc.index)]
  /\ at' = "done"
  /\ UNCHANGED <<arr, orig, loc>>
  /\ UNCHANGED bfvars

NextBwt == Transform \/ InverseTransform

SpecBwt == InitBwt /\ [][NextBwt]_vars

\* C17: inv_burrows_wheeler_transform(burrows_wheeler_transform(s)) = s for
\* every string s: the empty string, strings with repeated characters or
\* equal rotations, strings of mixed case.
C17_RoundTrip ==
  (call.fn = "inv_burrows_wheeler_transform" /\ at = "done") =>
    outcome.decoded = arr

----------------------------------------------------------------------------
(* depth_first_search (src/src/graph/depth_first_search.rs). A Graph is its
   Vec<Edge>, a sequence of pairs <<from, to>>; its vertices field is never
   read. *)

EdgeLists == UNION {[1..n -> Nodes \X Nodes] : n \in 0..MaxEdges}

\* Mutant of neighbors: the edges are followed backwards
neighbors_backwards(edges, v) ==
  LET es_v == SelectSeq(edges, LAMBDA e : e[2] = v)
  IN  [i \in 1..Len(es_v) |-> es_v[i][1]]

\* graph.edges.iter().filter(|e| e.0 == self.0).map(|e| e.1.into()).collect()
neighbors(edges, v) ==
  LET es_v == SelectSeq(edges, LAMBDA e : e[1] = v)
  IN  [i \in 1..Len(es_v) |-> es_v[i][2]]

\* for neighbor in ...into_iter().rev() { if visited.insert(neighbor) {
\* queue.push_front(neighbor); } }: i walks nbrs from its last element
RECURSIVE visit_neighbors(_, _, _, _)
visit_neighbors(nbrs, i, visited, queue) ==
  IF i = 0 THEN [visited |-> visited, queue |-> queue]
  ELSE IF nbrs[i] \in visited
    THEN visit_neighbors(nbrs, i - 1, visited, queue)
    ELSE visit_neighbors(nbrs, i - 1, visited \cup {nbrs[i]},
                         <<nbrs[i]>> \o queue)

\* while let Some(current_vertex) = queue.pop_front() { .. }  None
RECURSIVE dfs_loop(_, _, _, _, _)
dfs_loop(edges, objective, visited, history, queue) ==
  IF queue = <<>> THEN None
  ELSE LET current_vertex == Head(queue)
           history1       == Append(history, current_vertex)
           r == visit_neighbors(neighbors(edges, current_vertex),
                                Len(neighbors(edges, current_vertex)),
                                visited, Tail(queue))
       IN  IF current_vertex = objective THEN SomeOf(history1)
           ELSE dfs_loop(edges, objective, r.visited, history1, r.queue)

depth_first_search(edges, root, objective) ==
  dfs_loop(edges, objective, {}, <<>>, <<root>>)

InitDfs ==
  /\ BfInit
  /\ call = NoCall
  /\ arr \in EdgeLists
  /\ orig = arr
  /\ at = "idle"
  /\ loc = <<>>
  /\ outcome = <<>>

\* The objective may be a vertex no edge mentions
DepthFirstSearch ==
  /\ at = "idle"
  /\ \E root \in Nodes, objective \in Nodes \cup {NoNode} :
       /\ call' = [fn |-> "depth_first_search", root |-> root,
                   objective |-> objective]
       /\ outcome' = [ret |-> depth_first_search(arr, root, objective)]
  /\ at' = "done"
  /\ UNCHANGED <<arr, orig, loc>>
  /\ UNCHANGED bfvars

NextDfs == DepthFirstSearch

SpecDfs == InitDfs /\ [][NextDfs]_vars

\* The vertices reachable from those of S along one or more edges
RECURSIVE ReachOver(_, _, _)
ReachOver(edges, S, found) ==
  LET next == {edges[i][2] : i \in {j \in 1..Len(edges) : edges[j][1] \in S}}
  IN  IF next \subseteq found THEN found
      ELSE ReachOver(edges, next \ found, found \cup next)

\* C18: depth_first_search returns Some(history) exactly when the objective
\* is the root or reachable from it along the edges, and then the history
\* starts with the root and ends with the objective; otherwise it returns
\* None. Graphs with cycles are included.
C18_DfsFindsReachable ==
  (call.fn = "depth_first_search" /\ at = "done") =>
    LET reachable == \/ call.objective = call.root
                     \/ call.objective \in ReachOver(arr, {call.root}, {})
    IN  /\ (outcome.ret # None) <=> reachable
        /\ outcome.ret # None =>
             LET history == outcome.ret[1]
             IN  /\ history[1] = call.root
                 /\ history[Len(history)] = call.objective

\* The root lies on a cycle, and an objective other than the root was found
\* after at least one other vertex
C18_Witness ==
  /\ call.fn = "depth_first_search"
  /\ at = "done"
  /\ call.root \in ReachOver(arr, {call.root}, {})
  /\ call.objective # call.root
  /\ outcome.ret # None
  /\ Len(outcome.ret[1]) >= 3

----------------------------------------------------------------------------
(* knuth_morris_pratt (src/src/string/knuth_morris_pratt.rs) and rabin_karp
   (src/src/string/rabin_karp.rs). A String is the sequence of its UTF-8
   bytes; both functions index it by byte. *)

\* 'a', 'b' and U+00E9 (e with acute accent), which takes two bytes
TextChars == {97, 98, 233}

\* The UTF-8 encoding of a code point below 2048
Utf8(c) == IF c < 128 THEN <<c>> ELSE <<192 + (c \div 64), 128 + (c % 64)>>

RECURSIVE Utf8String(_)
Utf8String(cs) ==
  IF cs = <<>> THEN <<>> ELSE Utf8(Head(cs)) \o Utf8String(Tail(cs))

\* The Strings of at most MaxLen characters
Texts == {Utf8String(cs) : cs \in UNION {[1..n -> TextChars] : n \in 0..MaxLen}}

\* str::is_char_boundary: 0, len, and every byte that is not a continuation
\* byte (128..191)
is_char_boundary(s, i) ==
  \/ i = 0
  \/ i = Len(s)
  \/ i < Len(s) /\ ~(At(s, i) >= 128 /\ At(s, i) <= 191)

\* while j > 0 && pattern[j] != c { j = partial[j - 1]; }
RECURSIVE fall_back(_, _, _, _)
fall_back(pattern, partial, j, c) ==
  IF j > 0 /\ At(pattern, j) # c
    THEN fall_back(pattern, partial, At(partial, j - 1), c)
    ELSE j

\* for i in 1..pattern.len() { .. partial.push(..) }
RECURSIVE build_partial(_, _, _)
build_partial(pattern, i, partial) ==
  IF i >= Len(pattern) THEN partial
  ELSE LET j == fall_back(pattern, partial, At(partial, i - 1),
                          At(pattern, i))
       IN  build_partial(pattern, i + 1,
                         Append(partial, IF At(pattern, j) = At(pattern, i)
                                           THEN j + 1 ELSE j))

\* for (i, &c) in string.iter().enumerate() { .. }
RECURSIVE kmp_search(_, _, _, _, _, _)
kmp_search(string, pattern, partial, i, j, found) ==
  IF i >= Len(string) THEN found
  ELSE LET c  == At(string, i)
           j1 == fall_back(pattern, partial, j, c)
           j2 == IF c = At(pattern, j1) THEN j1 + 1 ELSE j1
       IN  IF j2 = Len(pattern)
             THEN kmp_search(string, pattern, partial, i + 1,
                             At(partial, j2 - 1), Append(found, i + 1 - j2))
             ELSE kmp_search(string, pattern, partial, i + 1, j2, found)

knuth_morris_pratt(st, pat) ==
  IF st = <<>> \/ pat = <<>> THEN <<>>
  ELSE kmp_search(st, pat, build_partial(pat, 1, <<0>>), 0, 0, <<>>)

prime == 101

\* The loop of hash over the bytes left once the last char is drained
RECURSIVE hash_loop(_, _, _)
hash_loop(bytes, i, res) ==
  IF i >= Len(bytes) THEN res
  ELSE hash_loop(bytes, i + 1,
                 IF i = 0 THEN (At(bytes, i) * 256) % prime
                          ELSE (((res + At(bytes, i)) % 101) * 256) % 101)

\* s.drain(s.len() - 1..) panics unless len - 1 is a char boundary, that is
\* unless the last char is a single byte. All intermediate values fit a u16.
hash(s) ==
  IF ~is_char_boundary(s, Len(s) - 1) THEN [panic |-> TRUE, val |-> 0]
  ELSE [panic |-> FALSE,
        val |-> (hash_loop(SubSeq(s, 1, Len(s) - 1), 0, 0) + s[Len(s)])
                  % prime]

\* for i in 0..(target.len() - pattern.len() + 1) { .. }
\* &target[i..(i + pattern.len())] panics unless both ends are char
\* boundaries
RECURSIVE rabin_karp_loop(_, _, _, _, _)
rabin_karp_loop(target, string, hash_pattern, i, found) ==
  IF i >= Len(target) - Len(string) + 1
    THEN [panic |-> FALSE, ret |-> found]
  ELSE IF ~(is_char_boundary(target, i)
            /\ is_char_boundary(target, i + Len(string)))
    THEN [panic |-> TRUE, ret |-> found]
  ELSE LET s_i == Slice(target, i, i + Len(string))
       IN  IF hash(s_i).panic THEN [panic |-> TRUE, ret |-> found]
           ELSE rabin_karp_loop(target, string, hash_pattern, i + 1,
                                IF hash(s_i).val = hash_pattern /\ s_i = string
                                  THEN Append(found, i) ELSE found)

rabin_karp(target, pattern) ==
  IF target = <<>> \/ pattern = <<>> \/ Len(pattern) > Len(target)
    THEN [panic |-> FALSE, ret |-> <<>>]
  ELSE IF hash(pattern).panic THEN [panic |-> TRUE, ret |-> <<>>]
  ELSE rabin_karp_loop(target, pattern, hash(pattern).val, 0, <<>>)

InitSearch ==
  /\ BfInit
  /\ call = NoCall
  /\ arr \in Texts
  /\ orig = arr
  /\ at = "idle"
  /\ loc = <<>>
  /\ outcome = <<>>

KnuthMorrisPratt ==
  /\ at = "idle"
  /\ \E pat \in Texts :
       /\ call' = [fn |-> "knuth_morris_pratt", pat |-> pat]
       /\ outcome' = [kmp |-> knuth_morris_pratt(arr, pat)]
  /\ at' = "kmp"
  /\ UNCHANGED <<arr, orig, loc>>
  /\ UNCHANGED bfvars

\* rabin_karp on the text and pattern knuth_morris_pratt was given
RabinKarp ==
  /\ at = "kmp"
  /\ call' = [fn |-> "rabin_karp", pat |-> call.pat]
  /\ outcome' = [kmp |-> outcome.kmp,
                 panic |-> rabin_karp(arr, call.pat).panic,
                 rk |-> rabin_karp(arr, call.pat).ret]
  /\ at' = "done"
  /\ UNCHANGED <<arr, orig, loc>>
  /\ UNCHANGED bfvars

NextSearch == KnuthMorrisPratt \/ RabinKarp

SpecSearch == InitSearch /\ [][NextSearch]_vars

\* The start indices of the occurrences of pat in text, in increasing order
Occurrences(text, pat) ==
  IF pat = <<>> THEN <<>>
  ELSE SortedSeq({i \in 0..(Len(text) - Len(pat)) :
                    Slice(text, i, i + Len(pat)) = pat})

\* C19: for every text and pattern knuth_morris_pratt and rabin_karp return
\* the same list, the start indices of all occurrences of the pattern in the
\* text, overlapping ones included, in increasing order; the list is empty
\* when the text or the pattern is empty or the pattern is longer than the
\* text.
C19_SearchesAgree ==
  (call.fn = "rabin_karp" /\ at = "done") =>
    /\ ~outcome.panic
    /\ outcome.rk = outcome.kmp
    /\ outcome.kmp = Occurrences(arr, call.pat)
    /\ (arr = <<>> \/ call.pat = <<>> \/ Len(call.pat) > Len(arr)) =>
         outcome.kmp = <<>>

\* On texts and patterns of single-byte characters the two do agree
C19_AgreeOnAscii ==
  (/\ call.fn = "rabin_karp"
   /\ at = "done"
   /\ \A i \in 1..Len(arr) : arr[i] < 128
   /\ \A i \in 1..Len(call.pat) : call.pat[i] < 128) =>
    /\ ~outcome.panic
    /\ outcome.rk = outcome.kmp
    /\ outcome.kmp = Occurrences(arr, call.pat)

----------------------------------------------------------------------------
(* binary_search (src/src/search/binary_search.rs) and binary_search_rec
   (src/src/search/binary_search_rec.rs), one step per loop iteration and
   per recursive call *)

\* The slices the two are meant for: sorted in ascending order
SortedSlices == {a \in Slices : Sorted(a)}

\* An item may be larger than every element
Items == 0..(MaxVal + 1)

InitSorted ==
  /\ BfInit
  /\ call = NoCall
  /\ arr \in SortedSlices
  /\ orig = arr
  /\ at = "idle"
  /\ loc = <<>>
  /\ outcome = <<>>

\* let mut left = 0; let mut right = arr.len();
BinarySearchCall ==
  /\ at = "idle"
  /\ \E item \in Items : call' = [fn |-> "binary_search", item |-> item]
  /\ loc' = [left |-> 0, right |-> Len(arr)]
  /\ at' = "loop"
  /\ UNCHANGED <<arr, orig, outcome>>
  /\ UNCHANGED bfvars

\* Mutant of BinarySearchStep: the two halves are taken the wrong way round
BinarySearchStep_wrong_half ==
  /\ at = "loop"
  /\ call.fn = "binary_search"
  /\ IF loc.left < loc.right
       THEN LET mid == loc.left + (loc.right - loc.left) \div 2
            IN  IF call.item < At(arr, mid)
                  THEN /\ loc' = [loc EXCEPT !.left = mid + 1]
                       /\ UNCHANGED <<at, outcome>>
                ELSE IF call.item = At(arr, mid)
                  THEN /\ outcome' = [ret |-> SomeOf(mid)]
                       /\ at' = "done"
                       /\ UNCHANGED loc
                ELSE /\ loc' = [loc EXCEPT !.right = mid]
                     /\ UNCHANGED <<at, outcome>>
       ELSE /\ outcome' = [ret |-> None]
            /\ at' = "done"
            /\ UNCHANGED loc
  /\ UNCHANGED <<call, arr, orig>>
  /\ UNCHANGED bfvars

\* The test of `while left < right` and, when it holds, one pass of the body;
\* when it fails, the final None
BinarySearchStep ==
  /\ at = "loop"
  /\ call.fn = "binary_search"
  /\ IF loc.left < loc.right
       THEN LET mid == loc.left + (loc.right - loc.left) \div 2
            IN  IF call.item < At(arr, mid)
                  THEN /\ loc' = [loc EXCEPT !.right = mid]
                       /\ UNCHANGED <<at, outcome>>
                ELSE IF call.item = At(arr, mid)
                  THEN /\ outcome' = [ret |-> SomeOf(mid)]
                       /\ at' = "done"
                       /\ UNCHANGED loc
                ELSE /\ loc' = [loc EXCEPT !.left = mid + 1]
                     /\ UNCHANGED <<at, outcome>>
       ELSE /\ outcome' = [ret |-> None]
            /\ at' = "done"
            /\ UNCHANGED loc
  /\ UNCHANGED <<call, arr, orig>>
  /\ UNCHANGED bfvars

\* binary_search_rec(&arr, &target, &0, &arr.len())
BinarySearchRecCall ==
  /\ at = "idle"
  /\ \E target \in Items :
       call' = [fn |-> "binary_search_rec", item |-> target]
  /\ loc' = [left |-> 0, right |-> Len(arr)]
  /\ at' = "loop"
  /\ UNCHANGED <<arr, orig, outcome>>
  /\ UNCHANGED bfvars

\* One invocation of binary_search_rec: it returns, or calls itself with the
\* new left or right, whose result it returns unchanged
BinarySearchRecStep ==
  /\ at = "loop"
  /\ call.fn = "binary_search_rec"
  /\ IF loc.left >= loc.right
       THEN /\ outcome' = [ret |-> None]
            /\ at' = "done"
            /\ UNCHANGED loc
       ELSE LET middle == loc.left + (loc.right - loc.left) \div 2
            IN  IF call.item < At(arr, middle)
                  THEN /\ loc' = [loc EXCEPT !.right = middle]
                       /\ UNCHANGED <<at, outcome>>
                ELSE IF call.item > At(arr, middle)
                  THEN /\ loc' = [loc EXCEPT !.left = middle + 1]
                       /\ UNCHANGED <<at, outcome>>
                ELSE /\ outcome' = [ret |-> SomeOf(middle)]
                     /\ at' = "done"
                     /\ UNCHANGED loc
  /\ UNCHANGED <<call, arr, orig>>
  /\ UNCHANGED bfvars

NextBinary ==
  \/ BinarySearchCall
  \/ BinarySearchStep
  \/ BinarySearchRecCall
  \/ BinarySearchRecStep

SpecBinary == InitSorted /\ [][NextBinary]_vars

Occurs(a, x) == \E i \in 1..Len(a) : a[i] = x

BinaryAnswerRight ==
  (call.fn \in {"binary_search", "binary_search_rec"} /\ at = "done") =>
    IF Occurs(arr, call.item)
      THEN /\ outcome.ret # None
           /\ outcome.ret[1] \in 0..(Len(arr) - 1)
           /\ At(arr, outcome.ret[1]) = call.item
      ELSE outcome.ret = None

BinaryRangeShrinks ==
  (at = "loop" /\ at' = "loop") =>
    /\ loc'.left <= loc'.right
    /\ loc'.right - loc'.left < loc.right - loc.left

\* C20: on every slice sorted in ascending order and for every item,
\* binary_search, and binary_search_rec called with left = 0 and
\* right = len, return Some(i) with arr[i] equal to the item when the item
\* occurs in the slice and None when it does not; the search range
\* right - left strictly shrinks at every step, so the search terminates.
C20_BinarySearchCorrect == [](BinaryAnswerRight) /\ [][BinaryRangeShrinks]_vars

\* binary_search_rec found an item in its second or a later invocation, in a
\* slice of MaxLen elements
C20_Witness ==
  /\ call.fn = "binary_search_rec"
  /\ at = "done"
  /\ Len(arr) = MaxLen
  /\ outcome.ret # None
  /\ loc.left > 0 \/ loc.right < Len(arr)
  /\ At(arr, outcome.ret[1]) = call.item

----------------------------------------------------------------------------
(* Textbook Bellman-Ford, the reference of C21: distances are a mapping from
   the reached nodes to integers, the source at 0, a node outside the mapping
   at infinity *)

\* One edge relaxed: d(v) becomes d(u) + w when u is reached and that is less
TextbookRelaxEdge(d, e) ==
  IF e[1] \in DOMAIN d /\ (e[2] \notin DOMAIN d \/ d[e[1]] + e[3] < d[e[2]])
    THEN MapInsert(d, e[2], d[e[1]] + e[3])
    ELSE d

\* One full pass over the edges
RECURSIVE TextbookPass(_, _)
TextbookPass(d, edges) ==
  IF edges = <<>> THEN d
  ELSE TextbookPass(TextbookRelaxEdge(d, Head(edges)), Tail(edges))

RECURSIVE TextbookPasses(_, _, _)
TextbookPasses(g, d, n) ==
  IF n = 0 THEN d ELSE TextbookPasses(g, TextbookPass(d, EdgeSeq(g)), n - 1)

\* |V| - 1 passes, then the pass that reports a negative cycle iff some edge
\* u -> v with u reached still satisfies d(u) + w < d(v)
TextbookBellmanFord(g, s) ==
  LET d == TextbookPasses(g, MapInsert(EmptyMap, s, 0), NumPasses(g))
  IN  [negative_cycle |-> \E i \in 1..Len(EdgeSeq(g)) :
                            TextbookRelaxEdge(d, EdgeSeq(g)[i]) # d,
       d |-> d]

\* C21: on every graph built by add_edge calls and every source, bellman_ford
\* agrees with textbook Bellman-Ford: either both report a negative cycle, or
\* both return the same set of reached nodes with the same distance for each.
C21_AgreesWithTextbook ==
  Returned =>
    LET t == TextbookBellmanFord(graph, start)
    IN  IF t.negative_cycle
          THEN ret = "None"
          ELSE /\ ret = "Some"
               /\ DOMAIN ans = DOMAIN t.d
               /\ \A v \in DOMAIN ans : Dist(ans, v) = t.d[v]

\* Both return every node of the model, one of them reached through another
\* node than the source at less than zero
C21_Witness ==
  /\ ReturnedSome
  /\ ~TextbookBellmanFord(graph, start).negative_cycle
  /\ DOMAIN ans = Nodes
  /\ \E v \in Nodes \ {start} : ans[v][1] # start /\ ans[v][2] < 0

\* Both report a negative cycle that passes through the source and whose edge
\* into the source is not negative
C21_WitnessNegative ==
  /\ ReturnedNone
  /\ TextbookBellmanFord(graph, start).negative_cycle
  /\ start \in DOMAIN graph
  /\ \A u \in DOMAIN graph : \A v \in DOMAIN graph[u] :
       graph[u][v] < 0 => (u = start /\ v # start)

\* C22: for a graph value in which some edge destination is not an outer key
\* and all weights are non-negative, bellman_ford still returns Some, with
\* every node reachable from the source present at its minimum distance:
\* (number of outer keys - 1) passes are enough.
C22_DanglingDestinations ==
  (Returned /\ ~Closed(graph) /\ NonNegative(graph)) =>
    /\ ret = "Some"
    /\ \A v \in Reach(graph, {start}) :
         /\ v \in DOMAIN ans
         /\ v # start =>
              /\ ans[v] # None
              /\ ans[v][2] = MinOf(PathWeights(graph, start, v, {start}))

\* bellman_ford is running and this step does not return None (which drops
\* the mapping)
RunningStep ==
  /\ pc \in {"loop", "outer", "inner", "detect"}
  /\ ret' # "None"

\* Every entry stays, and one that differs afterwards was Some before, is Some
\* after and carries a strictly smaller distance
EntriesOnlyImprove ==
  \A v \in DOMAIN ans :
    /\ v \in DOMAIN ans'
    /\ ans'[v] # ans[v] =>
         /\ ans[v] # None
         /\ ans'[v] # None
         /\ ans'[v][2] < ans[v][2]

\* C23: during bellman_ford an existing entry for a node is replaced only when
\* the candidate distance is strictly smaller than the recorded one; a
\* candidate of equal distance leaves predecessor and distance unchanged
\* (first discovered wins), so no node's recorded distance ever increases
\* over the run.
C23_ReplacedOnlyWhenSmaller == [][RunningStep => EntriesOnlyImprove]_vars

\* The edges of cur_u examined so far in this pass
Examined == {v \in DOMAIN graph[cur_u] : \A i \in 1..Len(vs) : vs[i] # v}

\* The edge examined last offered its destination's recorded distance through
\* another predecessor, and the entry kept the predecessor it had
C23_Witness ==
  /\ pc = "inner"
  /\ Examined # {}
  /\ LET v == CHOOSE x \in Examined : \A y \in Examined : y <= x
         candidate == IF dist_u = <<>> THEN graph[cur_u][v]
                      ELSE dist_u[1] + graph[cur_u][v]
     IN  /\ ans[v] # None
         /\ ans[v][1] # cur_u
         /\ ans[v][2] = candidate

----------------------------------------------------------------------------
(* Graphs of up to MaxNode + 1 nodes, enough for a relaxation pass that
   changes nothing to be followed by another pass *)

WideNodes == 0..MaxNode

WideWeights == (0 - MaxWideWeight)..MaxWideWeight

AddEdgeWide ==
  /\ pc = "build"
  /\ \E v1 \in WideNodes, v2 \in WideNodes, c \in WideWeights :
       /\ NumEdges(add_edge(graph, v1, v2, c)) <= MaxEdges
       /\ graph' = add_edge(graph, v1, v2, c)
  /\ UNCHANGED <<pc, start, ans, pass, us, cur_u, dist_u, vs, es, ret, calls,
                 first, pass_ans>>
  /\ UNCHANGED others

NextWide == AddEdgeWide \/ Call \/ BellmanFord

SpecWide == Init /\ [][NextWide]_vars

\* Pass k ran to its end and left the mapping as it was at its head
QuietPass(k) ==
  /\ k \in 1..(Len(pass_ans) - 1)
  /\ pass_ans[k + 1] = pass_ans[k]

\* The detection pass run on mapping a returns None
DetectsOn(a) ==
  \E i \in 1..Len(EdgeSeq(graph)) :
    detect_edge(a, EdgeSeq(graph)[i][1], EdgeSeq(graph)[i][2],
                EdgeSeq(graph)[i][3])

----------------------------------------------------------------------------
(* add_edge: what it leaves alone *)

\* C25: add_edge(g, a, b, w) changes nothing except the a -> b entry and the
\* presence of a and b as outer keys: every other edge keeps its weight, no
\* other edge appears, and the outgoing edges b already had are preserved.
C25_AddEdgeFrame ==
  call.fn = "add_edge" =>
    /\ DOMAIN graph = DOMAIN call.g \cup {call.v1, call.v2}
    /\ EdgeSet(graph) = EdgeSet(call.g) \cup {<<call.v1, call.v2>>}
    /\ \A e \in EdgeSet(call.g) :
         e # <<call.v1, call.v2>> => graph[e[1]][e[2]] = call.g[e[1]][e[2]]

\* The call has added an edge a -> b to a graph in which b, another node than
\* a, had outgoing edges, and another node than a and b has one too
C25_Witness ==
  /\ call.fn = "add_edge"
  /\ call.v1 # call.v2
  /\ <<call.v1, call.v2>> \notin EdgeSet(call.g)
  /\ Succ(call.g, call.v2) # {}
  /\ graph[call.v2] = call.g[call.v2]
  /\ \E u \in DOMAIN call.g :
       u \notin {call.v1, call.v2} /\ call.g[u] # EmptyMap /\ graph[u] = call.g[u]

----------------------------------------------------------------------------
(* The test `*d > *d + *d` of bellman_ford on a fixed-width weight type *)

Widths == 2..MaxBits

\* The values of the signed integer type of w bits
SignedRange(w) == (0 - 2^(w - 1))..(2^(w - 1) - 1)

\* x + y modulo 2^w, as a value of the type
wrapping_add(w, x, y) == ((x + y + 2^(w - 1)) % 2^w) - 2^(w - 1)

\* x + y on the type of w bits: the sum when it is in range; otherwise a panic
\* in a build with overflow checks and the wrapped sum in a build without
add(w, x, y) ==
  IF x + y \in SignedRange(w)
    THEN {[panic |-> FALSE, val |-> x + y]}
    ELSE {[panic |-> TRUE, val |-> x],
          [panic |-> FALSE, val |-> wrapping_add(w, x, y)]}

\* *d > *d + *d
negative_edge(w, d) ==
  {[panic |-> s.panic, ret |-> ~s.panic /\ d > s.val] : s \in add(w, d, d)}

\* The test is evaluated for an edge of weight d from the source to itself
NegativeEdge ==
  /\ at \in {"idle", "done"}
  /\ \E w \in Widths :
       \E d \in SignedRange(w) :
         \E r \in negative_edge(w, d) :
           /\ call' = [fn |-> "negative_edge", w |-> w, d |-> d]
           /\ outcome' = r
  /\ at' = "done"
  /\ UNCHANGED <<arr, orig, loc>>
  /\ UNCHANGED bfvars

NextWidth == NegativeEdge

SpecWidth == Init /\ [][NextWidth]_vars

\* C26: for every weight d of a fixed-width signed integer type, with the
\* arithmetic taken modulo 2^w, the test d > d + d is true exactly when d < 0,
\* also for weights whose doubling exceeds the type's range.
C26_DoublingTest ==
  (call.fn = "negative_edge" /\ ~outcome.panic) =>
    (outcome.ret <=> call.d < 0)

\* The test is true exactly when d < 0 for the weights whose doubling stays in
\* the type's range
C26_RightInRange ==
  (call.fn = "negative_edge" /\ call.d + call.d \in SignedRange(call.w)) =>
    /\ ~outcome.panic
    /\ outcome.ret <=> call.d < 0

\* With wrapped arithmetic the test is wrong for every weight whose doubling
\* leaves the range
C26_WrongOutOfRange ==
  (/\ call.fn = "negative_edge"
   /\ call.d + call.d \notin SignedRange(call.w)
   /\ ~outcome.panic) =>
    (outcome.ret <=> call.d >= 0)

=============================================================================
